---- MODULE Spec2Model ----
(***************************************************************************)
(* Contacts REST API: the contact data-access layer (src/src/crud.py) and  *)
(* the route handlers that call it (src/src/routes/contacts.py).           *)
(*                                                                         *)
(* The contact table is the set `store`; a row is a record with the        *)
(* columns id, user_id and the ContactBase fields.  An optional value is a *)
(* set with at most one element ({} is Python's None for a row lookup);    *)
(* the None of a nullable text column is the string NoneVal.               *)
(***************************************************************************)
EXTENDS Integers, Sequences, FiniteSets, TLC

VARIABLES
    store,      \* the contacts table: a set of rows
    nextId,     \* the next primary key the table hands out
    last,       \* the last request handled and its response
    task,       \* in-flight POST /contacts handlers (interleaved handling)
    dbUnique,   \* whether the table declares per-owner uniqueness constraints
    users       \* the users table: a set of rows

vars == <<store, nextId, last, task, dbUnique, users>>

-----------------------------------------------------------------------------
(* Bounds and input domains *)

MaxId == 2

Users == {1, 2}
Ids == 1..MaxId

NoneVal == "None"

Emails == {"a@x.io", "b@x.io"}
Phones == {"0501112233", "0674445566"}

Date(y, m, d) == [year |-> y, month |-> m, day |-> d]

\* the columns a ContactBase body carries
BaseFields ==
    {"first_name", "last_name", "email", "phone_number", "birthday", "additional_data"}

\* (first_name, last_name, birthday, additional_data, fields left unset) as they
\* come in request bodies.  schemas.ContactBase: every field but additional_data
\* is required, so the only field a validated body can leave unset is
\* additional_data, and a body that leaves it unset holds its default, None
Details ==
    { <<"John", "Doe", Date(2000, 1, 2), NoneVal, {"additional_data"}>>,
      <<"John", "Doe", Date(2000, 1, 2), NoneVal, {}>>,
      <<"Jack", "Smith", Date(1990, 12, 30), "note", {}>> }

ContactCreate ==
    { [first_name |-> p[1], last_name |-> p[2], email |-> e, phone_number |-> ph,
       birthday |-> p[3], additional_data |-> p[4], unset |-> p[5]] :
         p \in Details, e \in Emails, ph \in Phones }

\* schemas.ContactUpdate: ContactBase plus the required flag `completed`
ContactUpdate ==
    { [first_name |-> b.first_name, last_name |-> b.last_name, email |-> b.email,
       phone_number |-> b.phone_number, birthday |-> b.birthday,
       additional_data |-> b.additional_data, unset |-> b.unset,
       completed |-> TRUE] : b \in ContactCreate }

\* model_dump() without exclude_unset: defaults are dumped as if they were sent
model_dump_all(body) ==
    [k \in DOMAIN body \ {"unset"} |-> body[k]]

\* body.model_dump(exclude_unset=True): the fields that were set, as a dict
model_dump(body) ==
    [k \in (DOMAIN body \ {"unset"}) \ body.unset |-> body[k]]

-----------------------------------------------------------------------------
(* Data-access layer: src/src/crud.py *)

\* result.scalars().first() of a lookup: no row, or one row
first(rows) ==
    IF rows = {} THEN {}
    ELSE {CHOOSE c \in rows : \A d \in rows : c.id <= d.id}

\* the lookup by primary key alone
get_contact_any_owner(st, contact_id, user) ==
    first({c \in st : c.id = contact_id})

get_contact(st, contact_id, user) ==
    first({c \in st : c.id = contact_id /\ c.user_id = user})

\* the lookup by email over every owner's rows
get_contact_by_email_any_owner(st, email, user) ==
    first({c \in st : c.email = email})

get_contact_by_email(st, email, user) ==
    first({c \in st : c.email = email /\ c.user_id = user})

get_contact_by_phone(st, phone_number, user) ==
    first({c \in st : c.phone_number = phone_number /\ c.user_id = user})

\* the rows of a result in the table's (primary key) order
RECURSIVE InOrder(_)
InOrder(rows) ==
    IF rows = {} THEN <<>>
    ELSE LET c == CHOOSE x \in rows : \A d \in rows : x.id <= d.id
         IN  <<c>> \o InOrder(rows \ {c})

\* seq[skip+1 ..], at most `limit` of them: .offset(skip).limit(limit)
OffsetLimit(seq, skip, limit) ==
    LET n == Len(seq)
        lo == skip + 1
        hi == IF skip + limit < n THEN skip + limit ELSE n
    IN  IF lo > hi THEN <<>> ELSE SubSeq(seq, lo, hi)

\* .limit(limit) without .offset(skip)
get_contacts_no_offset(st, user, skip, limit) ==
    OffsetLimit(InOrder({c \in st : c.user_id = user}), 0, limit)

get_contacts(st, user, skip, limit) ==
    OffsetLimit(InOrder({c \in st : c.user_id = user}), skip, limit)

\* a row built without the optional column
NewRow_without_note(nid, user, body) ==
    [id |-> nid, user_id |-> user,
     first_name |-> body.first_name, last_name |-> body.last_name,
     email |-> body.email, phone_number |-> body.phone_number,
     birthday |-> body.birthday, additional_data |-> NoneVal]

\* models.Contact(**contact.model_dump(exclude_unset=True), user=user) after
\* db.add / db.commit / db.refresh: the row with its generated primary key
NewRow(nid, user, body) ==
    LET d == model_dump(body) IN
    [id |-> nid, user_id |-> user,
     first_name |-> d.first_name, last_name |-> d.last_name,
     email |-> d.email, phone_number |-> d.phone_number,
     birthday |-> d.birthday,
     additional_data |->
        IF "additional_data" \in DOMAIN d THEN d.additional_data ELSE NoneVal]

crud_create_contact(st, nid, user, body) ==
    st \cup {NewRow(nid, user, body)}

\* for key, value in contact_data.items(): setattr(db_contact, key, value)
\* (`completed` is no column of the contacts table: it is not persisted)
SetAttrs(row, body) ==
    LET d == model_dump(body) IN
    [k \in DOMAIN row |-> IF k \in DOMAIN d THEN d[k] ELSE row[k]]

crud_update_contact(st, db_contact, body) ==
    (st \ {db_contact}) \cup {SetAttrs(db_contact, body)}

\* a delete that is never committed
crud_delete_contact_no_commit(st, contact_id, user) ==
    LET db_contact == get_contact(st, contact_id, user) IN
    [raised |-> db_contact = {}, store |-> st, out |-> db_contact]

\* db_contact = await get_contact(...); db.delete(db_contact); db.commit().
\* db.delete(None) raises (UnmappedInstanceError): [raised |-> TRUE]
crud_delete_contact(st, contact_id, user) ==
    LET db_contact == get_contact(st, contact_id, user) IN
    IF db_contact = {}
    THEN [raised |-> TRUE, store |-> st, out |-> {}]
    ELSE [raised |-> FALSE, store |-> st \ db_contact, out |-> db_contact]

\* and_ in place of or_
search_contacts_and(st, first_name, last_name, email) ==
    LET conditions ==
          (IF first_name # "None" /\ first_name # ""
             THEN {<<"first_name", first_name>>} ELSE {})
          \cup (IF last_name # "None" /\ last_name # ""
             THEN {<<"last_name", last_name>>} ELSE {})
          \cup (IF email # "None" /\ email # "" THEN {<<"email", email>>} ELSE {})
    IN  IF conditions = {}
        THEN [raised |-> TRUE, rows |-> {}]
        ELSE [raised |-> FALSE,
              rows |-> {c \in st : \A cond \in conditions : c[cond[1]] = cond[2]}]

\* no test of an empty `conditions` list: or_() of nothing selects every row
search_contacts_unchecked(st, first_name, last_name, email) ==
    LET conditions ==
          (IF first_name # "None" /\ first_name # ""
             THEN {<<"first_name", first_name>>} ELSE {})
          \cup (IF last_name # "None" /\ last_name # ""
             THEN {<<"last_name", last_name>>} ELSE {})
          \cup (IF email # "None" /\ email # "" THEN {<<"email", email>>} ELSE {})
    IN  [raised |-> FALSE,
         rows |-> IF conditions = {} THEN st
                  ELSE {c \in st : \E cond \in conditions : c[cond[1]] = cond[2]}]

\* Python truthiness of an optional string: None and "" are falsy
Truthy(x) == x # NoneVal /\ x # ""

\* the `conditions` list search_contacts builds: one per truthy criterion
SearchConditions(first_name, last_name, email) ==
    (IF Truthy(first_name) THEN {<<"first_name", first_name>>} ELSE {})
      \cup (IF Truthy(last_name) THEN {<<"last_name", last_name>>} ELSE {})
      \cup (IF Truthy(email) THEN {<<"email", email>>} ELSE {})

\* [raised |-> TRUE] is ResponseValidationError; otherwise the rows that
\* satisfy or_(*conditions), over the whole table
search_contacts(st, first_name, last_name, email) ==
    LET conditions == SearchConditions(first_name, last_name, email) IN
    IF conditions = {}
    THEN [raised |-> TRUE, rows |-> {}]
    ELSE [raised |-> FALSE,
          rows |-> {c \in st : \E cond \in conditions : c[cond[1]] = cond[2]}]

\* (month, day) compared as a pair, month first
MonthDayLeq(m1, d1, m2, d2) == m1 < m2 \/ (m1 = m2 /\ d1 <= d2)

\* the same-year branch comparing (month, day) pairs instead of components
get_contacts_by_birthday_range_pairs(st, start_date, end_date, user) ==
    IF end_date.year > start_date.year
    THEN {c \in st : /\ c.birthday.month >= start_date.month
                     /\ c.birthday.day >= start_date.day}
           \cup {c \in st : /\ c.birthday.month <= end_date.month
                            /\ c.birthday.day <= end_date.day}
    ELSE {c \in st :
            /\ MonthDayLeq(start_date.month, start_date.day,
                           c.birthday.month, c.birthday.day)
            /\ MonthDayLeq(c.birthday.month, c.birthday.day,
                           end_date.month, end_date.day)}

\* the query that is executed: the union of the two half-open selections when
\* the range crosses a year end, the four-way conjunction otherwise; `user`
\* is a parameter no query mentions
get_contacts_by_birthday_range(st, start_date, end_date, user) ==
    IF end_date.year > start_date.year
    THEN {c \in st : /\ c.birthday.month >= start_date.month
                     /\ c.birthday.day >= start_date.day}
           \cup {c \in st : /\ c.birthday.month <= end_date.month
                            /\ c.birthday.day <= end_date.day}
    ELSE {c \in st : /\ c.birthday.month >= start_date.month
                     /\ c.birthday.day >= start_date.day
                     /\ c.birthday.month <= end_date.month
                     /\ c.birthday.day <= end_date.day}

-----------------------------------------------------------------------------
(* Calendar arithmetic of datetime.date *)

IsLeap(y) == (y % 4 = 0 /\ y % 100 # 0) \/ y % 400 = 0

DaysInMonth(y, m) ==
    IF m = 2 THEN (IF IsLeap(y) THEN 29 ELSE 28)
    ELSE IF m \in {4, 6, 9, 11} THEN 30 ELSE 31

NextDay(d) ==
    IF d.day < DaysInMonth(d.year, d.month) THEN Date(d.year, d.month, d.day + 1)
    ELSE IF d.month < 12 THEN Date(d.year, d.month + 1, 1)
    ELSE Date(d.year + 1, 1, 1)

\* d + timedelta(days=n)
RECURSIVE AddDays(_, _)
AddDays(d, n) == IF n = 0 THEN d ELSE AddDays(NextDay(d), n - 1)

-----------------------------------------------------------------------------
(* Route layer: src/src/routes/contacts.py.  A handler's outcome is the    *)
(* status code, the table after it, and the rows in the response body.     *)

Resp(code, st, rows) == [status |-> code, store |-> st, out |-> rows]

\* a pre-check that looks the email up and not the phone number
route_create_contact_email_only(st, nid, user, body) ==
    IF get_contact_by_email(st, body.email, user) # {}
    THEN Resp(400, st, {})
    ELSE Resp(201, crud_create_contact(st, nid, user, body),
              {NewRow(nid, user, body)})

route_create_contact(st, nid, user, body) ==
    LET db_contact_by_email == get_contact_by_email(st, body.email, user)
        db_contact_by_phone == get_contact_by_phone(st, body.phone_number, user)
    IN  IF db_contact_by_email # {} \/ db_contact_by_phone # {}
        THEN Resp(400, st, {})
        ELSE Resp(201, crud_create_contact(st, nid, user, body),
                  {NewRow(nid, user, body)})

read_contact(st, contact_id, user) ==
    LET db_contact == get_contact(st, contact_id, user)
    IN  IF db_contact = {} THEN Resp(404, st, {}) ELSE Resp(200, st, db_contact)

read_contacts(st, user, skip, limit) ==
    get_contacts(st, user, skip, limit)

\* GET /contacts/birthdays on the server date `today`
get_upcoming_birthdays(st, today, user) ==
    get_contacts_by_birthday_range(st, today, AddDays(today, 7), user)

\* duplicate checks made whether or not the field changes
route_update_contact_always_check(st, contact_id, user, body) ==
    LET found == get_contact(st, contact_id, user) IN
    IF found = {} THEN Resp(404, st, {})
    ELSE
      LET db_contact == CHOOSE c \in found : TRUE IN
      IF get_contact_by_email(st, body.email, user) # {}
      THEN Resp(400, st, {})
      ELSE IF get_contact_by_phone(st, body.phone_number, user) # {}
      THEN Resp(400, st, {})
      ELSE Resp(200, crud_update_contact(st, db_contact, body),
                {SetAttrs(db_contact, body)})

route_update_contact(st, contact_id, user, body) ==
    LET found == get_contact(st, contact_id, user) IN
    IF found = {} THEN Resp(404, st, {})
    ELSE
      LET db_contact == CHOOSE c \in found : TRUE IN
      IF body.email # db_contact.email
            /\ get_contact_by_email(st, body.email, user) # {}
      THEN Resp(400, st, {})
      ELSE IF body.phone_number # db_contact.phone_number
            /\ get_contact_by_phone(st, body.phone_number, user) # {}
      THEN Resp(400, st, {})
      ELSE Resp(200, crud_update_contact(st, db_contact, body),
                {SetAttrs(db_contact, body)})

\* an exception no handler catches answers 500
route_delete_contact(st, contact_id, user) ==
    LET db_contact == get_contact(st, contact_id, user)
        deleted == crud_delete_contact(st, contact_id, user)
    IN  IF db_contact = {} THEN Resp(404, st, {})
        ELSE IF deleted.raised THEN Resp(500, st, {})
        ELSE Resp(200, deleted.store, deleted.out)

\* GET /contacts/search: an exception no handler catches answers 500
route_search_contacts(st, first_name, last_name, email) ==
    LET r == search_contacts(st, first_name, last_name, email) IN
    IF r.raised THEN Resp(500, st, {}) ELSE Resp(200, st, r.rows)

-----------------------------------------------------------------------------
(* Requests handled one at a time *)

\* query parameters of GET /contacts/search (NoneVal: not sent)
SearchFirstNames == {NoneVal, "", "John"}
SearchLastNames == {NoneVal, "Smith"}
SearchEmails == {NoneVal, "", "a@x.io"}

\* server dates GET /contacts/birthdays is asked on
Todays == {Date(2024, 12, 28), Date(2024, 12, 24), Date(2024, 6, 10)}

Skips == {0, 1}
Limits == {1, 100}

Tasks == {1, 2}

IdleTask == [pc |-> "idle"]

Request(op, status) == [op |-> op, status |-> status]

Init ==
    /\ store = {}
    /\ nextId = 1
    /\ last = Request("none", 0)
    /\ task = [t \in Tasks |-> IdleTask]
    /\ dbUnique = FALSE
    /\ users = {}

\* POST /contacts
CreateContact ==
    \E user \in Users, body \in ContactCreate :
        LET r == route_create_contact(store, nextId, user, body) IN
        /\ r.status = 201 => nextId <= MaxId
        /\ store' = r.store
        /\ nextId' = IF r.status = 201 THEN nextId + 1 ELSE nextId
        /\ last' = Request("create", r.status)
        /\ UNCHANGED <<task, dbUnique, users>>

\* GET /contacts
ReadContacts ==
    \E user \in Users, skip \in Skips, limit \in Limits :
        /\ last' = Request("list", 200)
        /\ UNCHANGED <<store, nextId, task, dbUnique, users>>

\* GET /contacts/{contact_id}
ReadContact ==
    \E user \in Users, id \in Ids :
        LET r == read_contact(store, id, user) IN
        /\ last' = Request("read", r.status)
        /\ UNCHANGED <<store, nextId, task, dbUnique, users>>

\* GET /contacts/search
SearchContacts ==
    \E first_name \in SearchFirstNames, last_name \in SearchLastNames,
       email \in SearchEmails :
        LET r == route_search_contacts(store, first_name, last_name, email) IN
        /\ last' = Request("search", r.status)
        /\ UNCHANGED <<store, nextId, task, dbUnique, users>>

\* GET /contacts/birthdays
UpcomingBirthdays ==
    \E user \in Users, today \in Todays :
        /\ last' = Request("birthdays", 200)
        /\ UNCHANGED <<store, nextId, task, dbUnique, users>>

\* PUT /contacts/{contact_id}
UpdateContact ==
    \E user \in Users, id \in Ids, body \in ContactUpdate :
        LET r == route_update_contact(store, id, user, body) IN
        /\ store' = r.store
        /\ last' = Request("update", r.status)
        /\ UNCHANGED <<nextId, task, dbUnique, users>>

\* DELETE /contacts/{contact_id}
DeleteContact ==
    \E user \in Users, id \in Ids :
        LET r == route_delete_contact(store, id, user) IN
        /\ store' = r.store
        /\ last' = Request("delete", r.status)
        /\ UNCHANGED <<nextId, task, dbUnique, users>>

Next ==
    \/ CreateContact
    \/ ReadContacts
    \/ ReadContact
    \/ SearchContacts
    \/ UpcomingBirthdays
    \/ UpdateContact
    \/ DeleteContact

Spec == Init /\ [][Next]_vars

-----------------------------------------------------------------------------
(* POST /contacts handled by two tasks at once.  No lock spans a handler   *)
(* (one session per request), so the handler's three accesses to the table *)
(* - the lookup by email, the lookup by phone, the insert - interleave     *)
(* with the other task's.                                                  *)

\* the table's per-owner uniqueness constraints on (user_id, email) and
\* (user_id, phone_number): would the insert of `row` break one?
UniqueViolation(st, row) ==
    \E c \in st : /\ c.user_id = row.user_id
                  /\ (c.email = row.email \/ c.phone_number = row.phone_number)

RaceInit ==
    /\ store = {}
    /\ nextId = 1
    /\ last = Request("none", 0)
    /\ task = [t \in Tasks |-> IdleTask]
    /\ dbUnique \in BOOLEAN
    /\ users = {}

\* the request arrives: body validated, current_user resolved
BeginCreate(t) ==
    /\ task[t].pc = "idle"
    /\ \E user \in Users, body \in ContactCreate :
         task' = [task EXCEPT ![t] =
                    [pc |-> "by_email", user |-> user, body |-> body,
                     db_contact_by_email |-> {}, db_contact_by_phone |-> {},
                     status |-> 0]]
    /\ UNCHANGED <<store, nextId, last, dbUnique, users>>

\* db_contact_by_email = await crud.get_contact_by_email(...)
LookupEmail(t) ==
    /\ task[t].pc = "by_email"
    /\ task' = [task EXCEPT ![t].pc = "by_phone",
                  ![t].db_contact_by_email =
                      get_contact_by_email(store, task[t].body.email, task[t].user)]
    /\ UNCHANGED <<store, nextId, last, dbUnique, users>>

\* db_contact_by_phone = await crud.get_contact_by_phone(...), then the test
\* of the two lookups: 400, or on to crud.create_contact
LookupPhone(t) ==
    /\ task[t].pc = "by_phone"
    /\ LET db_contact_by_phone ==
             get_contact_by_phone(store, task[t].body.phone_number, task[t].user)
       IN  IF task[t].db_contact_by_email # {} \/ db_contact_by_phone # {}
           THEN task' = [task EXCEPT ![t].pc = "done", ![t].status = 400,
                           ![t].db_contact_by_phone = db_contact_by_phone]
           ELSE task' = [task EXCEPT ![t].pc = "insert",
                           ![t].db_contact_by_phone = db_contact_by_phone]
    /\ UNCHANGED <<store, nextId, last, dbUnique, users>>

\* crud.create_contact: db.add, db.commit.  A commit the table's constraint
\* refuses raises IntegrityError, which nothing catches: 500
InsertContact(t) ==
    /\ task[t].pc = "insert"
    /\ IF dbUnique /\ UniqueViolation(store, NewRow(nextId, task[t].user, task[t].body))
       THEN /\ task' = [task EXCEPT ![t].pc = "done", ![t].status = 500]
            /\ UNCHANGED <<store, nextId>>
       ELSE /\ store' = crud_create_contact(store, nextId, task[t].user, task[t].body)
            /\ nextId' = nextId + 1
            /\ task' = [task EXCEPT ![t].pc = "done", ![t].status = 201]
    /\ last' = Request("create", task'[t].status)
    /\ UNCHANGED <<dbUnique, users>>

RaceNext ==
    \E t \in Tasks :
        \/ BeginCreate(t)
        \/ LookupEmail(t)
        \/ LookupPhone(t)
        \/ InsertContact(t)

SpecRace == RaceInit /\ [][RaceNext]_vars

-----------------------------------------------------------------------------
(* Properties *)

OwnedBy(st, user) == {c \in st : c.user_id = user}

StoredIds(st) == {c.id : c \in st}

\* `user` already owns a contact with the body's email or phone number
Duplicate(st, user, body) ==
    \E c \in OwnedBy(st, user) :
        c.email = body.email \/ c.phone_number = body.phone_number

\* C1: two POST /contacts requests of one user with one email, handled
\* concurrently, end with exactly one 201 and one 400 - never two successes.
C1_ExactlyOneCreated ==
    (/\ task[1].pc = "done" /\ task[2].pc = "done"
     /\ task[1].user = task[2].user
     /\ task[1].body.email = task[2].body.email)
        => {task[1].status, task[2].status} = {201, 400}

\* C2: with requests handled one at a time, no two distinct stored contacts of
\* one owner share an email, and no two share a phone number.
C2_UniquePerOwner ==
    \A c, d \in store :
        (c # d /\ c.user_id = d.user_id)
            => (c.email # d.email /\ c.phone_number # d.phone_number)

C2_Witness ==
    /\ last = Request("update", 200)
    /\ \E c, d \in store : c # d /\ c.user_id = d.user_id

\* C3: POST /contacts by U answers 400 and leaves the table unchanged exactly
\* when U already owns a contact with that email or that phone number;
\* otherwise it answers 201 and adds exactly one contact, owned by U.  Other
\* owners' contacts never cause a rejection.
C3_CreateRejectedIffDuplicate ==
    \A user \in Users, body \in ContactCreate :
        \A r \in {route_create_contact(store, nextId, user, body)} :
        /\ r.status \in {201, 400}
        /\ (r.status = 400) <=> Duplicate(store, user, body)
        /\ (r.status = 400) => r.store = store
        /\ (r.status = 201) =>
              /\ store \subseteq r.store
              /\ Cardinality(r.store \ store) = 1
              /\ \A c \in r.store \ store : c.user_id = user

C3_Witness ==
    /\ last = Request("create", 400)
    /\ \E c, d \in store : c.user_id # d.user_id /\ c.email = d.email

\* C4: GET, PUT and DELETE /contacts/{id} by U answer 404 and leave the table
\* unchanged whenever no stored contact has that id and owner U; and through
\* these and GET /contacts no contact is returned to, modified by or deleted
\* by a user who is not its owner.
C4_OwnerOnly ==
    \A user \in Users :
        /\ \A id \in Ids :
             \A absent \in {~ \E c \in store : c.id = id /\ c.user_id = user},
                get \in {read_contact(store, id, user)},
                del \in {route_delete_contact(store, id, user)} :
                 /\ absent => (get.status = 404 /\ get.store = store /\ get.out = {})
                 /\ absent => (del.status = 404 /\ del.store = store /\ del.out = {})
                 /\ get.out \subseteq OwnedBy(store, user)
                 /\ del.out \subseteq OwnedBy(store, user)
                 /\ store \ OwnedBy(store, user) \subseteq del.store
                 /\ \A body \in ContactUpdate :
                      \A put \in {route_update_contact(store, id, user, body)} :
                      /\ absent => (put.status = 404 /\ put.store = store
                                        /\ put.out = {})
                      /\ put.out \subseteq OwnedBy(put.store, user)
                      /\ store \ OwnedBy(store, user) \subseteq put.store
        /\ \A skip \in Skips, limit \in Limits :
             LET rows == read_contacts(store, user, skip, limit) IN
             \A i \in 1..Len(rows) : rows[i] \in OwnedBy(store, user)

\* every id is stored, so a 404 is the refusal of another owner's contact
C4_Witness ==
    /\ last = Request("delete", 404)
    /\ StoredIds(store) = Ids

\* C5: GET /contacts/birthdays (get_contacts_by_birthday_range) returns only
\* contacts owned by the given user.
C5_BirthdaysOnlyOwn ==
    last.op = "birthdays" =>
        \A user \in Users, today \in Todays :
            get_upcoming_birthdays(store, today, user) \subseteq OwnedBy(store, user)

\* C6: after a successful create(user, fields), get_by_id(new id, user) returns
\* a contact whose six fields equal the input's, and the new id is the id of no
\* contact that was stored before.
C6_GetAfterCreate ==
    \A user \in Users, body \in ContactCreate :
        \A r \in {route_create_contact(store, nextId, user, body)} :
        (r.status = 201) =>
            \E new \in r.out :
                /\ new.id \notin StoredIds(store)
                /\ get_contact(r.store, new.id, user) = {new}
                /\ \A k \in BaseFields : new[k] = body[k]

C6_Witness ==
    /\ last = Request("create", 201)
    /\ Cardinality(store) = 2
    /\ \E c \in store : c.additional_data = "note"

\* C7: update(existing_record, partial_fields) overwrites exactly the fields
\* present in partial_fields, leaves the absent ones as they were, keeps the
\* id and the owner, and changes no other contact.
C7_UpdateMergesSetFields ==
    \A c \in store, body \in ContactUpdate :
        LET after == crud_update_contact(store, c, body)
            rows == {d \in after : d.id = c.id}
        IN  /\ after \ rows = store \ {c}
            /\ Cardinality(rows) = 1
            /\ \A new \in rows :
                 /\ DOMAIN new = DOMAIN c
                 /\ new.id = c.id /\ new.user_id = c.user_id
                 /\ \A k \in BaseFields :
                      new[k] = IF k \in body.unset THEN c[k] ELSE body[k]

\* a row that only an update leaving additional_data out can produce
C7_Witness ==
    /\ last = Request("update", 200)
    /\ \E c \in store : c.first_name = "John" /\ c.additional_data = "note"

\* C8: after DELETE /contacts/{id} by the owner answers 200 with the removed
\* record, the contact is gone: get_by_id finds nothing (GET answers 404), a
\* repeated DELETE answers 404, and no other contact was removed.
C8_DeletedIsGone ==
    \A user \in Users, id \in Ids :
        \A r \in {route_delete_contact(store, id, user)} :
        (r.status = 200) =>
            /\ Cardinality(r.out) = 1
            /\ r.out \subseteq store
            /\ \A c \in r.out : c.id = id /\ c.user_id = user
            /\ r.store = store \ r.out
            /\ get_contact(r.store, id, user) = {}
            /\ read_contact(r.store, id, user).status = 404
            /\ route_delete_contact(r.store, id, user).status = 404

C8_Witness ==
    /\ last = Request("delete", 200)
    /\ store # {}

\* C9: PUT /contacts/{id} on the caller's contact checks the email for a
\* duplicate only when it differs from the current one, and the phone number
\* likewise; a changed email or phone already held by a contact of the same
\* user is rejected with 400 and the table is unchanged; a PUT that keeps the
\* contact's own email and phone number answers 200.
C9_UpdateDuplicateCheck ==
    \A user \in Users, id \in Ids, body \in ContactUpdate :
        \A c \in get_contact(store, id, user) :
            \A r \in {route_update_contact(store, id, user, body)} :
            LET emailTaken ==
                    /\ body.email # c.email
                    /\ \E d \in OwnedBy(store, user) : d.email = body.email
                phoneTaken ==
                    /\ body.phone_number # c.phone_number
                    /\ \E d \in OwnedBy(store, user) :
                          d.phone_number = body.phone_number
            IN  /\ r.status \in {200, 400}
                /\ (r.status = 400) <=> (emailTaken \/ phoneTaken)
                /\ (r.status = 400) => r.store = store
                /\ (body.email = c.email /\ body.phone_number = c.phone_number)
                      => r.status = 200

C9_Witness ==
    /\ last = Request("update", 400)
    /\ Cardinality(store) = 2

\* C10: search with at least one criterion supplied (non-empty) returns exactly
\* the contacts of the whole table, whoever owns them, that equal some supplied
\* criterion in the corresponding field; criteria not supplied play no part.
C10_SearchIsOr ==
    \A first_name \in SearchFirstNames, last_name \in SearchLastNames,
       email \in SearchEmails :
        (Truthy(first_name) \/ Truthy(last_name) \/ Truthy(email)) =>
            \A r \in {search_contacts(store, first_name, last_name, email)} :
            /\ ~ r.raised
            /\ r.rows =
                 {c \in store :
                    \/ (Truthy(first_name) /\ c.first_name = first_name)
                    \/ (Truthy(last_name) /\ c.last_name = last_name)
                    \/ (Truthy(email) /\ c.email = email)}

\* two owners' contacts, one found by first name only, one by last name only
C10_Witness ==
    /\ last = Request("search", 200)
    /\ \E c, d \in store :
         /\ c.user_id # d.user_id
         /\ c.first_name = "John" /\ c.last_name # "Smith"
         /\ d.last_name = "Smith" /\ d.first_name # "John"

-----------------------------------------------------------------------------
(* The birthday-range query on tables with birthdays across the year *)

\* birthdays of stored contacts (the year plays no part in the query)
BirthDates ==
    << Date(1990, 1, 2), Date(1985, 1, 4), Date(2001, 6, 15), Date(1999, 6, 30),
       Date(1970, 7, 3), Date(1988, 12, 5), Date(1992, 12, 28), Date(2000, 12, 30) >>

\* the contact with primary key i, as user 1 created it
BirthRow(i) ==
    [id |-> i, user_id |-> 1, first_name |-> "John", last_name |-> "Doe",
     email |-> "a@x.io", phone_number |-> "0501112233",
     birthday |-> BirthDates[i], additional_data |-> NoneVal]

\* start dates the query is asked with
RangeStarts ==
    { Date(2024, 6, 10), Date(2024, 6, 28), Date(2024, 11, 20),
      Date(2024, 12, 24), Date(2024, 12, 28) }

\* end dates: the route's start + 7 days, and other dates a caller may pass
RangeEnds(start_date) ==
    { AddDays(start_date, 7), Date(2024, 7, 20), Date(2024, 1, 4),
      Date(2025, 1, 4) }

RangeRequest(op, start_date, end_date, rows) ==
    [op |-> op, status |-> 200, start_date |-> start_date,
     end_date |-> end_date, rows |-> rows]

\* a table of contacts of one user; their emails and phones play no part here
BirthdayInit ==
    /\ \E held \in SUBSET (1..Len(BirthDates)) :
          store = {BirthRow(i) : i \in held}
    /\ nextId = Len(BirthDates) + 1
    /\ last = Request("none", 0)
    /\ task = [t \in Tasks |-> IdleTask]
    /\ dbUnique = FALSE
    /\ users = {}

\* crud.get_contacts_by_birthday_range(db, start_date, end_date, user)
BirthdayRange ==
    \E start_date \in RangeStarts :
      \E end_date \in RangeEnds(start_date) :
        /\ last' = RangeRequest("birthday_range", start_date, end_date,
                      get_contacts_by_birthday_range(store, start_date, end_date, 1))
        /\ UNCHANGED <<store, nextId, task, dbUnique, users>>

\* GET /contacts/birthdays on the server date `today`
BirthdaysOn ==
    \E today \in RangeStarts :
        /\ last' = RangeRequest("birthdays", today, AddDays(today, 7),
                      get_upcoming_birthdays(store, today, 1))
        /\ UNCHANGED <<store, nextId, task, dbUnique, users>>

BirthdayNext ==
    \/ BirthdayRange
    \/ BirthdaysOn

SpecBirthday == BirthdayInit /\ [][BirthdayNext]_vars

-----------------------------------------------------------------------------
(* The users table: src/repository/users.py *)

\* validated sign-up bodies (schemas.UserModel), the password already hashed
UserModels ==
    { [username |-> "alice", email |-> "alice@x.io", password |-> "hash-a"],
      [username |-> "bobby", email |-> "bobby@x.io", password |-> "hash-b"],
      [username |-> "carol", email |-> "carol@x.io", password |-> "hash-c"] }

UserEmails == {body.email : body \in UserModels}

\* what Gravatar(email).get_image() does: it returns a URL or raises
GravatarOutcomes == {"url", "raise"}
get_image(email) == "gravatar/" \o email

\* refresh tokens handed to update_token; None clears the token
Tokens == {NoneVal, "token-1"}

\* URLs handed to update_avatar
AvatarUrls == {"cloud/avatar-1"}

\* the columns create_user does not set take the table's defaults
UserDefaults == [confirmed |-> FALSE, refresh_token |-> NoneVal]

\* db.query(User).filter(User.email == email).first()
get_user_by_email(us, email) == first({u \in us : u.email = email})

\* the sign-up route creates a user only for an email no user has
EmailFree(us, email) == get_user_by_email(us, email) = {}

\* a failing avatar lookup makes the whole creation fail
create_user_avatar_fatal(us, body, gravatar) ==
    LET new_user == [id |-> Cardinality(us) + 1, username |-> body.username,
                     email |-> body.email, password |-> body.password,
                     avatar |-> get_image(body.email),
                     confirmed |-> UserDefaults.confirmed,
                     refresh_token |-> UserDefaults.refresh_token]
    IN  IF gravatar = "raise"
        THEN [raised |-> TRUE, users |-> us, out |-> {}]
        ELSE [raised |-> FALSE, users |-> us \cup {new_user}, out |-> {new_user}]

\* create_user: the avatar lookup's exception is caught and printed; the row
\* is added and committed in either case, and returned after the refresh
create_user(us, body, gravatar) ==
    LET avatar == IF gravatar = "raise" THEN NoneVal ELSE get_image(body.email)
        new_user == [id |-> Cardinality(us) + 1, username |-> body.username,
                     email |-> body.email, password |-> body.password,
                     avatar |-> avatar,
                     confirmed |-> UserDefaults.confirmed,
                     refresh_token |-> UserDefaults.refresh_token]
    IN  [raised |-> FALSE, users |-> us \cup {new_user}, out |-> {new_user}]

\* update_token: user.refresh_token = token; commit
update_token(us, user, token) ==
    (us \ {user}) \cup {[user EXCEPT !.refresh_token = token]}

\* the confirmed flag is inverted instead of set
confirmed_email_toggle(us, email) ==
    LET found == get_user_by_email(us, email)
    IN  IF found = {}
        THEN [raised |-> TRUE, users |-> us]
        ELSE [raised |-> FALSE,
              users |-> (us \ found)
                          \cup {[u EXCEPT !.confirmed = ~ u.confirmed] : u \in found}]

\* confirmed_email: user.confirmed = True; commit.  With no such user the
\* lookup gives None and the assignment raises AttributeError
confirmed_email(us, email) ==
    LET found == get_user_by_email(us, email)
    IN  IF found = {}
        THEN [raised |-> TRUE, users |-> us]
        ELSE [raised |-> FALSE,
              users |-> (us \ found)
                          \cup {[u EXCEPT !.confirmed = TRUE] : u \in found}]

\* update_avatar: user.avatar = url; commit; return user
update_avatar(us, email, url) ==
    LET found == get_user_by_email(us, email)
        updated == {[u EXCEPT !.avatar = url] : u \in found}
    IN  IF found = {}
        THEN [raised |-> TRUE, users |-> us, out |-> {}]
        ELSE [raised |-> FALSE, users |-> (us \ found) \cup updated,
              out |-> updated]

UserRequest(op, status, email) == [op |-> op, status |-> status, email |-> email]

UsersInit ==
    /\ store = {}
    /\ nextId = 1
    /\ last = Request("none", 0)
    /\ task = [t \in Tasks |-> IdleTask]
    /\ dbUnique = FALSE
    /\ users = {}

CreateUser ==
    \E body \in UserModels, gravatar \in GravatarOutcomes :
        /\ EmailFree(users, body.email)
        /\ LET r == create_user(users, body, gravatar)
           IN  /\ users' = r.users
               /\ last' = UserRequest("create_user",
                                      IF r.raised THEN 500 ELSE 200, body.email)
        /\ UNCHANGED <<store, nextId, task, dbUnique>>

UpdateToken ==
    \E user \in users, token \in Tokens :
        /\ users' = update_token(users, user, token)
        /\ last' = UserRequest("update_token", 200, user.email)
        /\ UNCHANGED <<store, nextId, task, dbUnique>>

ConfirmedEmail ==
    \E email \in UserEmails :
        LET r == confirmed_email(users, email)
        IN  /\ users' = r.users
            /\ last' = UserRequest("confirmed_email",
                                   IF r.raised THEN 500 ELSE 200, email)
            /\ UNCHANGED <<store, nextId, task, dbUnique>>

UpdateAvatar ==
    \E email \in UserEmails, url \in AvatarUrls :
        LET r == update_avatar(users, email, url)
        IN  /\ users' = r.users
            /\ last' = UserRequest("update_avatar",
                                   IF r.raised THEN 500 ELSE 200, email)
            /\ UNCHANGED <<store, nextId, task, dbUnique>>

UsersNext ==
    \/ CreateUser
    \/ UpdateToken
    \/ ConfirmedEmail
    \/ UpdateAvatar

SpecUsers == UsersInit /\ [][UsersNext]_vars

-----------------------------------------------------------------------------
(* Two DELETE /contacts/{contact_id} handlers in flight: every database call
   of a handler is a step of its own, and each call reads the committed table *)

\* tables the sequential routes leave behind: one contact, or two
RaceDeleteInit ==
    /\ \E u1 \in Users, b1 \in ContactCreate :
          \/ store = {NewRow(1, u1, b1)}
          \/ \E u2 \in Users, b2 \in ContactCreate :
                /\ ~ Duplicate({NewRow(1, u1, b1)}, u2, b2)
                /\ store = {NewRow(1, u1, b1), NewRow(2, u2, b2)}
    /\ nextId = MaxId + 1
    /\ last = Request("none", 0)
    /\ task = [t \in Tasks |-> IdleTask]
    /\ dbUnique = FALSE
    /\ users = {}

\* the request arrives: contact_id parsed, current_user resolved
BeginDelete(t) ==
    /\ task[t].pc = "idle"
    /\ \E user \in Users, contact_id \in Ids :
          task' = [task EXCEPT ![t] =
                      [pc |-> "route_lookup", user |-> user,
                       contact_id |-> contact_id,
                       existed |-> get_contact(store, contact_id, user) # {},
                       status |-> 0]]
    /\ UNCHANGED <<store, nextId, last, dbUnique, users>>

\* the route's crud.get_contact; None is answered 404
RouteLookup(t) ==
    /\ task[t].pc = "route_lookup"
    /\ IF get_contact(store, task[t].contact_id, task[t].user) = {}
       THEN /\ task' = [task EXCEPT ![t].pc = "done", ![t].status = 404]
            /\ last' = Request("delete", 404)
       ELSE /\ task' = [task EXCEPT ![t].pc = "crud_lookup"]
            /\ UNCHANGED last
    /\ UNCHANGED <<store, nextId, dbUnique, users>>

\* crud.delete_contact's own get_contact, followed by db.delete(db_contact):
\* on None db.delete raises, which nothing catches: 500
CrudLookup(t) ==
    /\ task[t].pc = "crud_lookup"
    /\ IF crud_delete_contact(store, task[t].contact_id, task[t].user).raised
       THEN /\ task' = [task EXCEPT ![t].pc = "done", ![t].status = 500]
            /\ last' = Request("delete", 500)
       ELSE /\ task' = [task EXCEPT ![t].pc = "commit"]
            /\ UNCHANGED last
    /\ UNCHANGED <<store, nextId, dbUnique, users>>

\* db.commit() flushes the DELETE of the row by primary key and the record
\* is returned: 200.  A DELETE that matches no row any more is not an error
CommitDelete(t) ==
    /\ task[t].pc = "commit"
    /\ store' = {c \in store : c.id # task[t].contact_id}
    /\ task' = [task EXCEPT ![t].pc = "done", ![t].status = 200]
    /\ last' = Request("delete", 200)
    /\ UNCHANGED <<nextId, dbUnique, users>>

RaceDeleteNext ==
    \E t \in Tasks :
        \/ BeginDelete(t)
        \/ RouteLookup(t)
        \/ CrudLookup(t)
        \/ CommitDelete(t)

SpecRaceDelete == RaceDeleteInit /\ [][RaceDeleteNext]_vars

-----------------------------------------------------------------------------
(* Properties, continued *)

\* the (month, day) of `date` is that of some day from start to start + n
RECURSIVE OnSomeDay(_, _, _)
OnSomeDay(date, start_date, n) ==
    \/ (date.month = start_date.month /\ date.day = start_date.day)
    \/ (n > 0 /\ OnSomeDay(date, NextDay(start_date), n - 1))

\* C13: with end = start + 7 days, birthday_range returns every contact whose
\* birthday (month, day) is that of some date from start to end inclusive,
\* and no contact whose birthday matches none of those dates.
C13_WeekIsCalendarExact ==
    last.op = "birthdays" =>
        last.rows = {c \in store : OnSomeDay(c.birthday, last.start_date, 7)}

\* C14: when end_date.year > start_date.year, birthday_range returns exactly
\* the contacts whose (month, day), ordered by month and then day, is on or
\* after start_date's, together with those on or before end_date's; so
\* (Dec 28, Jan 4) includes Dec 30 and Jan 2 and excludes Jun 15.
C14_YearCrossingIsPairOrder ==
    (last.op = "birthday_range" /\ last.end_date.year > last.start_date.year) =>
        last.rows =
            {c \in store :
                \/ MonthDayLeq(last.start_date.month, last.start_date.day,
                               c.birthday.month, c.birthday.day)
                \/ MonthDayLeq(c.birthday.month, c.birthday.day,
                               last.end_date.month, last.end_date.day)}

\* C17: when end_date.year is not greater than start_date.year, birthday_range
\* selects exactly the contacts whose birthday passes all four comparisons,
\* each made on its own: month >= start month, day >= start day,
\* month <= end month, day <= end day.
C17_SameYearIsComponentwise ==
    (last.op = "birthday_range" /\ last.end_date.year <= last.start_date.year) =>
        last.rows =
            {c \in store :
                /\ c.birthday.month >= last.start_date.month
                /\ c.birthday.day >= last.start_date.day
                /\ c.birthday.month <= last.end_date.month
                /\ c.birthday.day <= last.end_date.day}

\* a range over two months that returns a contact and leaves out one whose
\* birthday lies between the two dates in the calendar
C17_Witness ==
    /\ last.op = "birthday_range"
    /\ last.end_date.year = last.start_date.year
    /\ last.start_date.month < last.end_date.month
    /\ last.rows # {}
    /\ \E c \in store \ last.rows :
          /\ MonthDayLeq(last.start_date.month, last.start_date.day,
                         c.birthday.month, c.birthday.day)
          /\ MonthDayLeq(c.birthday.month, c.birthday.day,
                         last.end_date.month, last.end_date.day)

\* C11: GET /contacts/search with none of first_name, last_name, email
\* supplied is answered with a client error (400 or 422), never with 200 and
\* never with an unhandled server error.
C11_SearchNoCriteriaClientError ==
    last.op = "search" =>
        \A first_name \in SearchFirstNames, last_name \in SearchLastNames,
           email \in SearchEmails :
            (~ Truthy(first_name) /\ ~ Truthy(last_name) /\ ~ Truthy(email)) =>
                route_search_contacts(store, first_name, last_name, email).status
                    \in {400, 422}

\* C12: crud.search_contacts called with zero criteria (each absent or empty)
\* always fails with ResponseValidationError, whatever the table holds,
\* returning no rows and leaving the table as it was.
C12_SearchNoCriteriaRaises ==
    \A first_name \in SearchFirstNames, last_name \in SearchLastNames,
       email \in SearchEmails :
        (~ Truthy(first_name) /\ ~ Truthy(last_name) /\ ~ Truthy(email)) =>
            /\ search_contacts(store, first_name, last_name, email).raised
            /\ search_contacts(store, first_name, last_name, email).rows = {}
            /\ route_search_contacts(store, first_name, last_name, email).store
                  = store

\* a search that failed although the table holds contacts
C12_Witness ==
    /\ last = Request("search", 500)
    /\ Cardinality(store) = 2

\* C18: the data-access delete(id, user) for an id the user owns no contact
\* with returns the not-found signal as a normal value: it raises no error
\* and leaves the table unchanged.
C18_DeleteAbsentReturns ==
    last = Request("delete", 404) =>
      \A user \in Users, id \in Ids :
        get_contact(store, id, user) = {} =>
            /\ ~ crud_delete_contact(store, id, user).raised
            /\ crud_delete_contact(store, id, user).out = {}
            /\ crud_delete_contact(store, id, user).store = store

\* C19: list(user, skip, limit) returns only contacts owned by user, in
\* insertion order: the user's contacts after the first `skip` of them, at
\* most `limit` of them (all the remaining ones when fewer are left).
C19_ListIsOwnedWindow ==
    \A user \in Users, skip \in Skips, limit \in Limits :
        \A rows \in {read_contacts(store, user, skip, limit)} :
            LET owned == OwnedBy(store, user)
                left == IF Cardinality(owned) > skip
                          THEN Cardinality(owned) - skip ELSE 0
            IN  /\ Len(rows) = IF left < limit THEN left ELSE limit
                /\ \A i \in 1..Len(rows) :
                     /\ rows[i] \in owned
                     /\ Cardinality({d \in owned : d.id < rows[i].id})
                            = skip + i - 1

\* one user owns two contacts, so skip 1 and limit 1 each cut the list
C19_Witness ==
    /\ last = Request("list", 200)
    /\ \E c, d \in store : c # d /\ c.user_id = d.user_id

\* C15: a user is created unconfirmed; confirmed_email(email) makes the user
\* with that email confirmed; a confirmed user stays confirmed under every
\* later confirmed_email, update_token and update_avatar; and a second
\* confirmed_email(email) leaves the users table as the first one left it.
C15_ConfirmedOnceAndForAll ==
    [][ /\ \A v \in users' :
              (\A u \in users : u.id # v.id) => ~ v.confirmed
        /\ \A u \in users :
              \E v \in users' : v.id = u.id /\ (u.confirmed => v.confirmed)
        /\ (last'.op = "confirmed_email" /\ last'.status = 200) =>
              /\ \E v \in users' : v.email = last'.email /\ v.confirmed
              /\ ~ confirmed_email(users', last'.email).raised
              /\ confirmed_email(users', last'.email).users = users'
      ]_vars

\* a confirmed user whose refresh token was set gets a new avatar
C15_Witness ==
    /\ last.op = "update_avatar"
    /\ last.status = 200
    /\ \E u \in users :
          /\ u.email = last.email
          /\ u.confirmed
          /\ u.refresh_token # NoneVal

\* C16: create_user adds and returns a user with the body's email, username
\* and password whether the avatar lookup returns or raises; when it raises
\* the user is created with avatar None and create_user raises nothing.
C16_CreateUserSurvivesAvatarFailure ==
    \A body \in UserModels, gravatar \in GravatarOutcomes :
        EmailFree(users, body.email) =>
            \A r \in {create_user(users, body, gravatar)} :
                /\ ~ r.raised
                /\ r.users = users \cup r.out
                /\ \E u \in r.out :
                      /\ r.out = {u}
                      /\ u \notin users
                      /\ u.email = body.email
                      /\ u.username = body.username
                      /\ u.password = body.password
                      /\ (gravatar = "raise" => u.avatar = NoneVal)

\* a user was created while the avatar lookup failed
C16_Witness ==
    /\ last.op = "create_user"
    /\ last.status = 200
    /\ \E u \in users : u.email = last.email /\ u.avatar = NoneVal

\* C20: when two DELETE requests of the owner for one contact that exists as
\* both arrive have been answered, one of them was answered 200 and the
\* other 404, whatever the interleaving; neither ends in an unhandled error.
C20_ConcurrentDeleteOne200One404 ==
    \A t1, t2 \in Tasks :
        ( /\ t1 # t2
          /\ task[t1].pc = "done" /\ task[t2].pc = "done"
          /\ task[t1].user = task[t2].user
          /\ task[t1].contact_id = task[t2].contact_id
          /\ task[t1].existed /\ task[t2].existed )
        => {task[t1].status, task[t2].status} = {200, 404}

====
